---- MODULE Spec2Model ----
(***************************************************************************)
(* Model of github.com/aprakasa/uniqid (uniqid.go): the Generator, its     *)
(* Next method under concurrent callers and an arbitrary wall clock, New,  *)
(* autoShardWithDeps, the Gen convenience function, and the 11-character   *)
(* encoding.                                                               *)
(*                                                                         *)
(* int64 values (clock readings, epochs, ticks) are pairs <<hi, lo>>       *)
(* standing for hi * 2^20 + lo with lo in 0..2^20-1, so that the real      *)
(* magnitudes (defaultEpochMs = 1577836800000) are representable.          *)
(* uint64 values are bit vectors [0..63 -> {0,1}], bit 0 least significant.*)
(***************************************************************************)
EXTENDS Integers, Sequences, FiniteSets, TLC

VARIABLES
    clock,          \* the wall clock read by deps.nowFunc (ms since Unix epoch)
    lastMs,         \* Generator.lastMs
    seq,            \* Generator.seq (uint16)
    shard,          \* Generator.shard
    baseEpoch,      \* Generator.baseEpoch
    mu,             \* Generator.mu: 0 = unlocked, else the caller holding it
    pc,             \* position of each caller inside Gen / Next
    nowMs,          \* Next's local nowMs, per caller
    floor,          \* per caller: number of identifiers returned when its call began
    spun,           \* per caller: the tick it waited out in spinUntilNextMs, or NoSpin
    issued,         \* the identifiers returned so far, in return order
    failed,         \* the errors returned by Gen calls so far, in return order
    onceDone,       \* defaultGenOnce has run
    defaultGenErr,  \* defaultGenErr: NilErr or the error New(nil) returned
    encIn,          \* inputs of the encoding loop (pure-function specification)
    encOut,         \* outputs of the encoding loop
    cfgIn,          \* the cfg argument of a call of New
    autoIn,         \* what autoShardFunc returns if New calls it
    newOut,         \* what that call of New returned, or NotCalled
    autoCalls,      \* number of calls of autoShardFunc made by New
    ctorCalls,      \* number of calls newFunc(nil) made through defaultGenOnce
    depsIn,         \* the deps argument of a call of autoShardWithDeps
    autoOut,        \* what that call of autoShardWithDeps returned, or NotCalled
    spinIn,         \* the arguments of a call of spinUntilNextMs and what nowFunc returns
    spinOut         \* on which reading that call returned, or NotCalled

vars == <<clock, lastMs, seq, shard, baseEpoch, mu, pc, nowMs, floor, spun,
          issued, failed, onceDone, defaultGenErr, encIn, encOut,
          cfgIn, autoIn, newOut, autoCalls, ctorCalls, depsIn, autoOut,
          spinIn, spinOut>>

genVars == <<lastMs, seq, shard, baseEpoch, mu>>
locVars == <<nowMs, floor, spun>>
encVars == <<encIn, encOut>>
spinVars == <<spinIn, spinOut>>
onceVars == <<onceDone, defaultGenErr>>
newVars == <<cfgIn, autoIn, newOut>>
autoVars == <<depsIn, autoOut>>
countVars == <<autoCalls, ctorCalls>>
ctorVars == <<newVars, autoVars, countVars>>

----------------------------------------------------------------------------
(* Bounds of the model *)

NumProcs == 2       \* concurrent callers
MaxCalls == 3       \* calls begun in one behaviour
MaxTick == 1        \* the clock reads defaultEpochMs-1 .. defaultEpochMs+MaxTick
MaxReads == 3       \* readings of nowFunc handed to one call of spinUntilNextMs
MonoCalls == 4      \* calls begun in one behaviour under a clock that only advances
OnceCalls == 3      \* Gen() calls begun in one behaviour of the default generator alone
LiveCalls == 2      \* calls begun in one behaviour under the fair scheduler

Procs == 1..NumProcs

----------------------------------------------------------------------------
(* int64 arithmetic on <<hi, lo>> pairs *)

LimbBase == 1048576

I64Norm(h, l) == <<h + (l \div LimbBase), l % LimbBase>>
I64(n) == I64Norm(0, n)
I64Sub(a, b) == I64Norm(a[1] - b[1], a[2] - b[2])
I64Add(a, b) == I64Norm(a[1] + b[1], a[2] + b[2])
I64Less(a, b) == a[1] < b[1] \/ (a[1] = b[1] /\ a[2] < b[2])
I64Leq(a, b) == a = b \/ I64Less(a, b)
I64Max(a, b) == IF I64Less(a, b) THEN b ELSE a

----------------------------------------------------------------------------
(* uint64 bit vectors *)

Bits == 0..63

BitOfNat(n, i) == IF i > 29 THEN 0 ELSE (n \div (2^i)) % 2

\* uint64(x) for an int64 x (two's complement)
U64FromI64(a) ==
    [i \in Bits |->
        IF i < 20 THEN BitOfNat(a[2], i)
        ELSE IF a[1] >= 0 THEN BitOfNat(a[1], i - 20)
        ELSE IF i - 20 > 29 THEN 1
        ELSE BitOfNat(a[1] % (2^30), i - 20)]

\* uint64(x) for a uint16 x
U64FromU16(n) == [i \in Bits |-> IF i < 16 THEN BitOfNat(n, i) ELSE 0]

Shl(v, k) == [i \in Bits |-> IF i >= k THEN v[i - k] ELSE 0]
Shr(v, k) == [i \in Bits |-> IF i + k <= 63 THEN v[i + k] ELSE 0]
Or64(a, b) == [i \in Bits |-> IF a[i] = 1 \/ b[i] = 1 THEN 1 ELSE 0]
And63(v) == v[0] + 2 * v[1] + 4 * v[2] + 8 * v[3] + 16 * v[4] + 32 * v[5]

RECURSIVE U64LessFrom(_, _, _)
U64LessFrom(a, b, i) ==
    IF i < 0 THEN FALSE
    ELSE IF a[i] # b[i] THEN a[i] < b[i]
    ELSE U64LessFrom(a, b, i - 1)
U64Less(a, b) == U64LessFrom(a, b, 63)

Zero64 == [i \in Bits |-> 0]

----------------------------------------------------------------------------
(* Constants of uniqid.go *)

\* const alphabet, as the byte codes of its 64 characters:
\* A-Z (65..90), a-z (97..122), 0-9 (48..57), '-' (45), '_' (95)
alphabet ==
    <<65, 66, 67, 68, 69, 70, 71, 72, 73, 74, 75, 76, 77,
      78, 79, 80, 81, 82, 83, 84, 85, 86, 87, 88, 89, 90,
      97, 98, 99, 100, 101, 102, 103, 104, 105, 106, 107, 108, 109,
      110, 111, 112, 113, 114, 115, 116, 117, 118, 119, 120, 121, 122,
      48, 49, 50, 51, 52, 53, 54, 55, 56, 57, 45, 95>>

\* const defaultEpochMs = int64(1577836800000) = 1504742 * 2^20 + 452608
defaultEpochMs == <<1504742, 452608>>

SeqLimit == 32768       \* 1<<15, the bound tested after g.seq++
Uint16Mod == 65536      \* g.seq is a uint16
MaxShard == 1023        \* the largest ShardID New accepts
OutLen == 11            \* var out [11]byte

AutoShard == -1         \* Config.ShardID requesting auto-detection
NoSpin == <<-1, 0>>     \* spun[p] of a call that has not been in spinUntilNextMs

----------------------------------------------------------------------------
(* Generator.Next: packing and encoding *)

\* val := (uint64(nowMs) << 25) | (uint64(g.shard) << 15) | uint64(g.seq)
Pack(now, sh, sq) ==
    Or64(Or64(Shl(U64FromI64(now), 25), Shl(U64FromU16(sh), 15)), U64FromU16(sq))

\* for i := 10; i >= 0; i-- { out[i] = alphabet[val&63]; val >>= 6 }
\* (out is indexed 1..11 here, out[i] of the code is out[i+1])
\* The loop shifting val by 5 bits per character instead of 6.
RECURSIVE EncodeLoopShr5(_, _, _)
EncodeLoopShr5(i, v, out) ==
    IF i < 0 THEN out
    ELSE EncodeLoopShr5(i - 1, Shr(v, 5), [out EXCEPT ![i + 1] = alphabet[And63(v) + 1]])

\* The loop writing the low bits first: out[10-i] instead of out[i].
RECURSIVE EncodeLoopLowFirst(_, _, _)
EncodeLoopLowFirst(i, v, out) ==
    IF i < 0 THEN out
    ELSE EncodeLoopLowFirst(i - 1, Shr(v, 6),
                            [out EXCEPT ![OutLen - i] = alphabet[And63(v) + 1]])

RECURSIVE EncodeLoop(_, _, _)
EncodeLoop(i, v, out) ==
    IF i < 0 THEN out
    ELSE EncodeLoop(i - 1, Shr(v, 6), [out EXCEPT ![i + 1] = alphabet[And63(v) + 1]])

Encode(v) == EncodeLoop(OutLen - 1, v, [k \in 1..OutLen |-> 0])

----------------------------------------------------------------------------
(* New *)

Nil == [nil |-> TRUE]

\* errors.New("shardID must be 0..1023") and
\* errors.New("could not determine shard ID")
ErrShardRange == "shardID must be 0..1023"
ErrNoShard == "could not determine shard ID"

\* autoShardFunc(g.deps) returning (0, err)
AutoFailed == [err |-> TRUE, shard |-> 0, error |-> ErrNoShard]

\* what autoShardFunc(g.deps) returns: (shard, nil) or (0, err)
AutoResults == {AutoFailed, [err |-> FALSE, shard |-> 1]}

\* cfg = &Config{ShardID: -1, CustomEpochMs: defaultEpochMs} when cfg == nil
CfgOrDefault(cfg) ==
    IF cfg = Nil THEN [ShardID |-> AutoShard, CustomEpochMs |-> defaultEpochMs] ELSE cfg

\* epoch := cfg.CustomEpochMs without the replacement of 0.
NewEpochRaw(cfg) == CfgOrDefault(cfg).CustomEpochMs

\* epoch := cfg.CustomEpochMs; if epoch == 0 { epoch = defaultEpochMs }
NewEpoch(cfg) ==
    LET c == CfgOrDefault(cfg)
    IN IF c.CustomEpochMs = I64(0) THEN defaultEpochMs ELSE c.CustomEpochMs

\* New calls autoShardFunc(g.deps): the else branch of cfg.ShardID >= 0
NewCallsAuto(cfg) == ~(CfgOrDefault(cfg).ShardID >= 0)

\* a nil error
NilErr == "nil"

\* no call made yet, so no result
NotCalled == [called |-> FALSE]

\* New(cfg), where autoRes is the result of autoShardFunc(g.deps).
\* The result is (nil, error): [err |-> TRUE, error], or (g, nil):
\* [err |-> FALSE, shard, baseEpoch, lastMs, seq].
New(cfg, autoRes) ==
    LET c == CfgOrDefault(cfg)
        fresh(sh) == [err |-> FALSE, shard |-> sh, baseEpoch |-> NewEpoch(cfg),
                      lastMs |-> I64(0), seq |-> 0]
    IN IF c.ShardID >= 0
       THEN IF c.ShardID > MaxShard
            THEN [err |-> TRUE, error |-> ErrShardRange]
            ELSE fresh(c.ShardID)
       ELSE IF autoRes.err
            THEN [err |-> TRUE, error |-> autoRes.error]
            ELSE fresh(autoRes.shard)

----------------------------------------------------------------------------
(* autoShardWithDeps *)

\* a XOR b on the low n bits
RECURSIVE XorBits(_, _, _)
XorBits(a, b, n) ==
    IF n = 0 THEN 0
    ELSE ((a + b) % 2) + 2 * XorBits(a \div 2, b \div 2, n - 1)

\* hash/fnv New32a: a 32-bit hash is <<high 16 bits, low 16 bits>>; the offset
\* basis is 2166136261 = 0x811C9DC5
FnvOffset == <<33052, 40389>>

\* h.Write of one byte: h ^= b, then h *= 16777619 (= 2^24 + 403) mod 2^32
FnvStep(h, b) ==
    LET lo == XorBits(h[2], b, 16)
    IN <<(h[1] * 403 + ((lo * 403) \div 65536) + (lo % 256) * 256) % 65536,
         (lo * 403) % 65536>>

\* h := fnv.New32a(); h.Write(bytes); h.Sum32()
RECURSIVE FnvFrom(_, _, _)
FnvFrom(h, bytes, k) ==
    IF k > Len(bytes) THEN h ELSE FnvFrom(FnvStep(h, bytes[k]), bytes, k + 1)
Fnv32a(bytes) == FnvFrom(FnvOffset, bytes, 1)

\* uint16(h.Sum32() & 0x3FF)
HashShard(bytes) == Fnv32a(bytes)[2] % 1024

\* binary.BigEndian.Uint16(b[:]) & 0x3FF
RandShard(b) == (b[1] * 256 + b[2]) % 1024

\* autoShardWithDeps returning (shard, nil)
AutoOk(sh) == [err |-> FALSE, shard |-> sh]

\* The loop skipping nothing: the first interface is taken whatever it is.
SkippedNever(in) == FALSE

\* in.Flags&net.FlagLoopback != 0 || len(in.HardwareAddr) == 0
Skipped(in) == in.loopback \/ Len(in.mac) = 0

\* for _, in := range ifs from position k on: the shard of the first interface
\* that is not skipped, or NotCalled when the loop ends without a return
RECURSIVE IfaceLoop(_, _)
IfaceLoop(ifs, k) ==
    IF k > Len(ifs) THEN NotCalled
    ELSE IF Skipped(ifs[k]) THEN IfaceLoop(ifs, k + 1)
    ELSE AutoOk(HashShard(ifs[k].mac))

\* autoShardWithDeps(d), d the results of d.ifacesFunc(), d.hostFunc() and
\* d.randFunc(b[:]); the error of d.ifacesFunc() is dropped (ifs, _ := ...)
autoShardWithDeps(d) ==
    LET fromIfaces == IF Len(d.ifaces) > 0 THEN IfaceLoop(d.ifaces, 1) ELSE NotCalled
    IN IF fromIfaces # NotCalled THEN fromIfaces
       ELSE IF ~d.host.err THEN AutoOk(HashShard(d.host.name))
       ELSE IF ~d.rand.err THEN AutoOk(RandShard(d.rand.b))
       ELSE AutoFailed

----------------------------------------------------------------------------
(* Generator.Next, the part under g.mu *)

\* nowMs := max(g.deps.nowFunc()-g.baseEpoch, g.lastMs)
NowTick(clk, epoch, last) == I64Max(I64Sub(clk, epoch), last)

\* nowMs = g.deps.nowFunc() - g.baseEpoch, the read after the spin-wait
RereadTick(clk, epoch) == I64Sub(clk, epoch)

\* g.seq++ on a uint16
SeqInc(sq) == (sq + 1) % Uint16Mod

\* The test with > in place of >=.
SeqExhaustedAbove(sq) == sq > SeqLimit

\* g.seq >= 1<<15
SeqExhausted(sq) == sq >= SeqLimit

\* Lines 148-162 up to the spin-wait, on generator state (last, sq) with the clock
\* reading clk: the local nowMs, the new g.lastMs and g.seq, and whether the
\* caller goes into the spin-wait.
NextLocked(last, sq, epoch, clk) ==
    LET nm == NowTick(clk, epoch, last)
    IN IF nm = last
       THEN [nowMs |-> nm, lastMs |-> last, seq |-> SeqInc(sq),
             spin |-> SeqExhausted(SeqInc(sq))]
       ELSE [nowMs |-> nm, lastMs |-> nm, seq |-> 0, spin |-> FALSE]

\* The test with target := lastMs.
SpinReturnsAtLastMs(epoch, last, clk) == I64Leq(last, I64Sub(clk, epoch))

\* spinUntilNextMs(baseEpoch, lastMs, nowFunc) returns on a reading clk with
\* now >= target, where target := lastMs + 1 and now := nowFunc() - baseEpoch
SpinReturns(epoch, last, clk) == I64Leq(I64Add(last, I64(1)), I64Sub(clk, epoch))

\* The loop of spinUntilNextMs from the k-th reading of nowFunc on: the number
\* of the reading on which it returns, or 0 if it is still polling after the
\* last of them.
RECURSIVE SpinLoop(_, _, _, _)
SpinLoop(epoch, last, readings, k) ==
    IF k > Len(readings) THEN 0
    ELSE IF SpinReturns(epoch, last, readings[k]) THEN k
    ELSE SpinLoop(epoch, last, readings, k + 1)

spinUntilNextMs(epoch, last, readings) == SpinLoop(epoch, last, readings, 1)

\* g.mu after the g.mu.Unlock() that precedes spinUntilNextMs
MuInSpin(p) == 0

----------------------------------------------------------------------------
(* The wall clock *)

\* The readings of deps.nowFunc: one millisecond before the default epoch up
\* to MaxTick milliseconds after it.
ClockValues == {I64Add(defaultEpochMs, I64(k)) : k \in (-1)..MaxTick}

\* The wall clock moves to any other value, forward or backward.
ClockSet(t) ==
    /\ t # clock
    /\ clock' = t
    /\ UNCHANGED <<genVars, pc, locVars, issued, failed, onceVars, encVars, spinVars, ctorVars>>

----------------------------------------------------------------------------
(* Callers of g.Next() on one shared Generator *)

CallsBegun == Len(issued) + Len(failed) + Cardinality({p \in Procs : pc[p] # "idle"})

\* The record of a returned identifier.
Issued(gen, sh, epoch, tick, s, v, fl, sp) ==
    [gen |-> gen, shard |-> sh, epoch |-> epoch, tick |-> tick, seq |-> s,
     val |-> v, id |-> Encode(v), floor |-> fl, spun |-> sp]

\* A caller begins g.Next(); at most n calls are begun.
CallUpTo(p, n) ==
    /\ pc[p] = "idle"
    /\ CallsBegun < n
    /\ pc' = [pc EXCEPT ![p] = "lock"]
    /\ floor' = [floor EXCEPT ![p] = Len(issued)]
    /\ UNCHANGED <<clock, genVars, nowMs, spun, issued, failed,
                   onceVars, encVars, spinVars, ctorVars>>

Call(p) == CallUpTo(p, MaxCalls)

\* g.mu.Lock() at the top of Next
Lock(p) ==
    /\ pc[p] = "lock"
    /\ mu = 0
    /\ mu' = p
    /\ pc' = [pc EXCEPT ![p] = "cs"]
    /\ UNCHANGED <<clock, lastMs, seq, shard, baseEpoch, locVars, issued,
                   failed, onceVars, encVars, spinVars, ctorVars>>

\* The caller returns: its locals are gone.
Returned(p) ==
    /\ pc' = [pc EXCEPT ![p] = "idle"]
    /\ nowMs' = [nowMs EXCEPT ![p] = I64(0)]
    /\ floor' = [floor EXCEPT ![p] = 0]
    /\ spun' = [spun EXCEPT ![p] = NoSpin]

\* Lines 148-171 without the spin-wait: one clock read, the update of lastMs
\* and seq, and either the packing of val, g.mu.Unlock(), the encoding of val
\* (which touches locals only) and the return, or g.mu.Unlock() and the entry
\* into spinUntilNextMs.
Body(p) ==
    /\ pc[p] = "cs"
    /\ mu = p
    /\ LET r == NextLocked(lastMs, seq, baseEpoch, clock)
       IN /\ lastMs' = r.lastMs
          /\ seq' = r.seq
          /\ IF r.spin
             THEN /\ mu' = MuInSpin(p)
                  /\ pc' = [pc EXCEPT ![p] = "spin"]
                  /\ nowMs' = [nowMs EXCEPT ![p] = r.nowMs]
                  /\ spun' = [spun EXCEPT ![p] = r.nowMs]
                  /\ UNCHANGED <<floor, issued>>
             ELSE /\ mu' = 0
                  /\ issued' = Append(issued,
                        Issued("g", shard, baseEpoch, r.nowMs, r.seq,
                               Pack(r.nowMs, shard, r.seq), floor[p], spun[p]))
                  /\ Returned(p)
    /\ UNCHANGED <<clock, shard, baseEpoch, failed, onceVars, encVars, spinVars, ctorVars>>

\* spinUntilNextMs returns: the clock reads a tick >= nowMs + 1.
SpinExit(p) ==
    /\ pc[p] = "spin"
    /\ SpinReturns(baseEpoch, nowMs[p], clock)
    /\ pc' = [pc EXCEPT ![p] = "relock"]
    /\ UNCHANGED <<clock, genVars, locVars, issued, failed, onceVars, encVars, spinVars, ctorVars>>

\* g.mu.Lock() after the spin-wait
Relock(p) ==
    /\ pc[p] = "relock"
    /\ mu = 0
    /\ mu' = p
    /\ pc' = [pc EXCEPT ![p] = "cs2"]
    /\ UNCHANGED <<clock, lastMs, seq, shard, baseEpoch, locVars, issued,
                   failed, onceVars, encVars, spinVars, ctorVars>>

\* Lines 155-157 and 163-171: the clock is read again, lastMs and seq are
\* overwritten, val is packed, the lock released, val encoded and returned.
Body2(p) ==
    /\ pc[p] = "cs2"
    /\ mu = p
    /\ LET nm == RereadTick(clock, baseEpoch)
       IN /\ lastMs' = nm
          /\ seq' = 0
          /\ issued' = Append(issued,
                Issued("g", shard, baseEpoch, nm, 0, Pack(nm, shard, 0),
                       floor[p], spun[p]))
    /\ mu' = 0
    /\ Returned(p)
    /\ UNCHANGED <<clock, shard, baseEpoch, failed, onceVars, encVars, spinVars, ctorVars>>

\* The steps of a call once it has begun.
NextSteps(p) ==
    \/ Lock(p)
    \/ Body(p)
    \/ SpinExit(p)
    \/ Relock(p)
    \/ Body2(p)

----------------------------------------------------------------------------
(* One Generator, any number of concurrent callers *)

\* The states a Generator built by New(&Config{ShardID: 1}) is in before a
\* call: as constructed (lastMs = 0, seq = 0), or after SeqLimit-2 or SeqLimit-1
\* calls made while the clock read the epoch or earlier (lastMs = 0 and
\* seq = SeqLimit-2 or SeqLimit-1).
GenStates ==
    LET g == New([ShardID |-> 1, CustomEpochMs |-> I64(0)], AutoFailed)
    IN {g, [g EXCEPT !.seq = SeqLimit - 2], [g EXCEPT !.seq = SeqLimit - 1]}

IdleCallers ==
    /\ pc = [p \in Procs |-> "idle"]
    /\ nowMs = [p \in Procs |-> I64(0)]
    /\ floor = [p \in Procs |-> 0]
    /\ spun = [p \in Procs |-> NoSpin]
    /\ issued = <<>>
    /\ failed = <<>>

\* No call of New or of autoShardWithDeps is being looked at.
NoNewCall == cfgIn = Nil /\ autoIn = AutoFailed /\ newOut = NotCalled
NoAutoCall == depsIn = NotCalled /\ autoOut = NotCalled
NoSpinCall == spinIn = NotCalled /\ spinOut = NotCalled

Init ==
    /\ clock \in ClockValues
    /\ \E g \in GenStates :
          /\ lastMs = g.lastMs
          /\ seq = g.seq
          /\ shard = g.shard
          /\ baseEpoch = g.baseEpoch
    /\ mu = 0
    /\ IdleCallers
    /\ onceDone = FALSE
    /\ defaultGenErr = NilErr
    /\ encIn = <<>>
    /\ encOut = <<>>
    /\ NoSpinCall
    /\ NoNewCall
    /\ NoAutoCall
    /\ autoCalls = 0
    /\ ctorCalls = 0

Next ==
    \/ \E t \in ClockValues : ClockSet(t)
    \/ \E p \in Procs : Call(p) \/ NextSteps(p)

Spec == Init /\ [][Next]_vars

----------------------------------------------------------------------------
(* One Generator, one caller whose calls do not overlap *)

\* the one goroutine that calls
Caller == CHOOSE p \in Procs : \A q \in Procs : p <= q

NextSeq ==
    \/ \E t \in ClockValues : ClockSet(t)
    \/ Call(Caller)
    \/ NextSteps(Caller)

SpecSeq == Init /\ [][NextSeq]_vars

----------------------------------------------------------------------------
(* One Generator, concurrent callers, a clock that never goes backward *)

ClockAdvance(t) == I64Less(clock, t) /\ ClockSet(t)

NextMono ==
    \/ \E t \in ClockValues : ClockAdvance(t)
    \/ \E p \in Procs : CallUpTo(p, MonoCalls) \/ NextSteps(p)

SpecMono == Init /\ [][NextMono]_vars

----------------------------------------------------------------------------
(* One Generator, concurrent callers, a fair lock and a fair scheduler *)

\* A call that again and again can take a step eventually takes one: a caller
\* that finds the lock free again and again gets it, a caller holding the lock
\* runs on, and a spinning caller that again and again could read a tick past
\* its target reads one.
Fairness == \A p \in Procs : SF_vars(NextSteps(p))

\* The clock reads the millisecond before the epoch, the epoch or the
\* millisecond after it, in any order.
LiveClockValues == {I64Add(defaultEpochMs, I64(k)) : k \in (-1)..1}

NextLive ==
    \/ \E t \in LiveClockValues : ClockSet(t)
    \/ \E p \in Procs : CallUpTo(p, LiveCalls) \/ NextSteps(p)

\* The generator one call before the sequence is exhausted in tick 0: a call
\* made while the clock reads the epoch or earlier goes into the spin-wait.
InitLive == Init /\ seq = SeqLimit - 1 /\ clock \in LiveClockValues

FairSpec == InitLive /\ [][NextLive]_vars /\ Fairness

----------------------------------------------------------------------------
(* Gen: the package-level default generator and one-off generators *)

\* The configurations passed to Gen: nil, a valid shard, an invalid shard.
GenCfgs ==
    {Nil,
     [ShardID |-> 1, CustomEpochMs |-> I64(0)],
     [ShardID |-> MaxShard + 1, CustomEpochMs |-> I64(0)]}

\* The error a Gen call returned: without a config ("default"), or with one.
GenError(kind, e) == [gen |-> kind, error |-> e]

\* defaultGenOnce.Do(f) running f on every call.
OnceDoAlways(done) == TRUE

\* defaultGenOnce.Do(f) runs f if it has not run before
OnceDo(done) == ~done

\* Gen() with no argument: defaultGenOnce.Do(newFunc(nil)), then the cached
\* error or defaultGen.Next(), whose steps are those of NextSteps. At most n
\* calls are begun.
GenDefaultUpTo(p, n) ==
    /\ pc[p] = "idle"
    /\ CallsBegun < n
    /\ IF OnceDo(onceDone)
       THEN \E a \in AutoResults :
               LET r == New(Nil, a)
               IN /\ onceDone' = TRUE
                  /\ defaultGenErr' = (IF r.err THEN r.error ELSE NilErr)
                  /\ ctorCalls' = ctorCalls + 1
                  /\ autoCalls' = (IF NewCallsAuto(Nil) THEN autoCalls + 1 ELSE autoCalls)
                  /\ IF r.err
                     THEN /\ failed' = Append(failed, GenError("default", r.error))
                          /\ UNCHANGED <<lastMs, seq, shard, baseEpoch, pc, floor>>
                     ELSE /\ lastMs' = r.lastMs
                          /\ seq' = r.seq
                          /\ shard' = r.shard
                          /\ baseEpoch' = r.baseEpoch
                          /\ pc' = [pc EXCEPT ![p] = "lock"]
                          /\ floor' = [floor EXCEPT ![p] = Len(issued)]
                          /\ UNCHANGED failed
       ELSE /\ UNCHANGED <<onceVars, countVars, lastMs, seq, shard, baseEpoch>>
            /\ IF defaultGenErr # NilErr
               THEN /\ failed' = Append(failed, GenError("default", defaultGenErr))
                    /\ UNCHANGED <<pc, floor>>
               ELSE /\ pc' = [pc EXCEPT ![p] = "lock"]
                    /\ floor' = [floor EXCEPT ![p] = Len(issued)]
                    /\ UNCHANGED failed
    /\ UNCHANGED <<clock, mu, nowMs, spun, issued, encVars, spinVars, newVars, autoVars>>

GenDefault(p) == GenDefaultUpTo(p, MaxCalls)

\* Gen(cfg) calling Next on defaultGen in place of the generator it built.
GenCfgOnDefault(p, cfg) ==
    /\ pc[p] = "idle"
    /\ CallsBegun < MaxCalls
    /\ mu = 0
    /\ \E a \in AutoResults :
          LET g == New(cfg, a)
          IN IF g.err
             THEN /\ failed' = Append(failed, GenError("cfg", g.error))
                  /\ UNCHANGED <<issued, lastMs, seq>>
             ELSE LET r == NextLocked(lastMs, seq, g.baseEpoch, clock)
                  IN /\ ~r.spin
                     /\ lastMs' = r.lastMs
                     /\ seq' = r.seq
                     /\ issued' = Append(issued,
                           Issued("cfg", g.shard, g.baseEpoch, r.nowMs, r.seq,
                                  Pack(r.nowMs, g.shard, r.seq), Len(issued), NoSpin))
                     /\ UNCHANGED failed
    /\ autoCalls' = (IF NewCallsAuto(cfg) THEN autoCalls + 1 ELSE autoCalls)
    /\ UNCHANGED <<clock, shard, baseEpoch, mu, pc, locVars, onceVars, encVars, spinVars, newVars,
                   autoVars, ctorCalls>>

\* Gen(cfg): newFunc(cfg) and, on success, g.Next() on the new generator. The
\* generator is private to the call and has seq = 0, so g.seq++ gives at most
\* 1 and the spin-wait is not entered: the call is one step.
GenCfg(p, cfg) ==
    /\ pc[p] = "idle"
    /\ CallsBegun < MaxCalls
    /\ \E a \in AutoResults :
          LET g == New(cfg, a)
          IN IF g.err
             THEN /\ failed' = Append(failed, GenError("cfg", g.error))
                  /\ UNCHANGED issued
             ELSE LET r == NextLocked(g.lastMs, g.seq, g.baseEpoch, clock)
                  IN /\ ~r.spin
                     /\ issued' = Append(issued,
                           Issued("cfg", g.shard, g.baseEpoch, r.nowMs, r.seq,
                                  Pack(r.nowMs, g.shard, r.seq), Len(issued), NoSpin))
                     /\ UNCHANGED failed
    /\ autoCalls' = (IF NewCallsAuto(cfg) THEN autoCalls + 1 ELSE autoCalls)
    /\ UNCHANGED <<clock, genVars, pc, locVars, onceVars, encVars, spinVars, newVars, autoVars,
                   ctorCalls>>

\* defaultGen before defaultGenOnce has run (nil), or built by New(nil) with
\* auto-detected shard 1 and then used: as constructed, or one call before
\* the sequence is exhausted.
DefaultGenStates ==
    LET g == New(Nil, [err |-> FALSE, shard |-> 1])
    IN {[once |-> FALSE, lastMs |-> I64(0), seq |-> 0, shard |-> 0, baseEpoch |-> I64(0)],
        [once |-> TRUE, lastMs |-> g.lastMs, seq |-> g.seq, shard |-> g.shard,
         baseEpoch |-> g.baseEpoch],
        [once |-> TRUE, lastMs |-> g.lastMs, seq |-> SeqLimit - 1, shard |-> g.shard,
         baseEpoch |-> g.baseEpoch]}

InitGen ==
    /\ clock \in ClockValues
    /\ \E d \in DefaultGenStates :
          /\ onceDone = d.once
          /\ lastMs = d.lastMs
          /\ seq = d.seq
          /\ shard = d.shard
          /\ baseEpoch = d.baseEpoch
          /\ autoCalls = (IF d.once THEN 1 ELSE 0)
          /\ ctorCalls = (IF d.once THEN 1 ELSE 0)
    /\ defaultGenErr = NilErr
    /\ mu = 0
    /\ IdleCallers
    /\ encIn = <<>>
    /\ encOut = <<>>
    /\ NoSpinCall
    /\ NoNewCall
    /\ NoAutoCall

NextGen ==
    \/ \E t \in ClockValues : ClockSet(t)
    \/ \E p \in Procs : GenDefault(p) \/ NextSteps(p)
    \/ \E p \in Procs, cfg \in GenCfgs : GenCfg(p, cfg)

SpecGen == InitGen /\ [][NextGen]_vars

----------------------------------------------------------------------------
(* Gen() without a config only: the default generator, concurrent callers *)

\* The clock reads the epoch or the millisecond after it, in any order.
OnceClockValues == {defaultEpochMs, I64Add(defaultEpochMs, I64(1))}

InitOnce == InitGen /\ clock \in OnceClockValues

NextOnce ==
    \/ \E t \in OnceClockValues : ClockSet(t)
    \/ \E p \in Procs : GenDefaultUpTo(p, OnceCalls) \/ NextSteps(p)

SpecOnce == InitOnce /\ [][NextOnce]_vars

----------------------------------------------------------------------------
(* The default generator and one-off generators side by side *)

\* Gen() and Gen(cfg) called concurrently while the clock reads the epoch or
\* the millisecond after it.
NextFrame ==
    \/ \E t \in OnceClockValues : ClockSet(t)
    \/ \E p \in Procs : GenDefaultUpTo(p, OnceCalls) \/ NextSteps(p)
    \/ \E p \in Procs, cfg \in GenCfgs : GenCfg(p, cfg)

SpecFrame == InitOnce /\ [][NextFrame]_vars

----------------------------------------------------------------------------
(* spinUntilNextMs as a function of what nowFunc returns *)

\* Epoch offsets: the default, 2022-01-01, and the one of TestSpinUntilNextMs.
SpinEpochs == {defaultEpochMs, <<1565005, 37888>>, I64(1000)}

\* lastMs arguments: a negative tick, tick 0, and the one of TestSpinUntilNextMs.
SpinLastMs == {I64(-1), I64(0), I64(500)}

\* What nowFunc returns on each call: up to MaxReads readings, each one
\* millisecond before lastMs, at lastMs, or one or two milliseconds after it.
SpinReadings(epoch, last) ==
    LET around == {I64Add(I64Add(epoch, last), I64(d)) : d \in (-1)..2}
    IN UNION {[1..n -> around] : n \in 0..MaxReads}

InitSpin ==
    /\ \E e \in SpinEpochs, l \in SpinLastMs :
          \E rs \in SpinReadings(e, l) :
             spinIn = [called |-> TRUE, baseEpoch |-> e, lastMs |-> l, readings |-> rs]
    /\ spinOut = NotCalled
    /\ clock = defaultEpochMs
    /\ lastMs = I64(0)
    /\ seq = 0
    /\ shard = 0
    /\ baseEpoch = defaultEpochMs
    /\ mu = 0
    /\ IdleCallers
    /\ onceDone = FALSE
    /\ defaultGenErr = NilErr
    /\ encIn = <<>>
    /\ encOut = <<>>
    /\ NoNewCall
    /\ NoAutoCall
    /\ autoCalls = 0
    /\ ctorCalls = 0

\* spinUntilNextMs(baseEpoch, lastMs, nowFunc) runs on the readings.
SpinCall ==
    /\ spinOut = NotCalled
    /\ spinOut' = [called |-> TRUE,
                   reads |-> spinUntilNextMs(spinIn.baseEpoch, spinIn.lastMs,
                                             spinIn.readings)]
    /\ UNCHANGED <<clock, genVars, pc, locVars, issued, failed, onceVars, encVars,
                   spinIn, ctorVars>>

SpecSpin == InitSpin /\ [][SpinCall]_vars

----------------------------------------------------------------------------
(* The encoding loop as a function of the packed value *)

OneBit(k) == [i \in Bits |-> IF i = k THEN 1 ELSE 0]
AllOnes == [i \in Bits |-> 1]

\* Packed values: every single bit, all zero, all one, and values packed by
\* one generator (shard 1) from neighbouring ticks and sequence numbers.
EncInputs ==
    {OneBit(k) : k \in Bits} \cup {Zero64, AllOnes}
    \cup {Pack(I64(t), 1, s) : t \in {0, 25, 26}, s \in {0, 51, 52, SeqLimit - 1}}

InitEnc ==
    /\ encIn \in EncInputs \X EncInputs
    /\ encOut = <<>>
    /\ NoSpinCall
    /\ clock = defaultEpochMs
    /\ lastMs = I64(0)
    /\ seq = 0
    /\ shard = 0
    /\ baseEpoch = defaultEpochMs
    /\ mu = 0
    /\ IdleCallers
    /\ onceDone = FALSE
    /\ defaultGenErr = NilErr
    /\ NoNewCall
    /\ NoAutoCall
    /\ autoCalls = 0
    /\ ctorCalls = 0

\* Both values go through the encoding loop of Next.
EncodePair ==
    /\ encOut = <<>>
    /\ encOut' = <<Encode(encIn[1]), Encode(encIn[2])>>
    /\ UNCHANGED <<clock, genVars, pc, locVars, issued, failed, onceVars, encIn, spinVars, ctorVars>>

SpecEnc == InitEnc /\ [][EncodePair]_vars

----------------------------------------------------------------------------
(* One Generator per accepted shard id, concurrent callers *)

\* Shard ids New accepts: the smallest, one with bit 0 clear and every other
\* bit set, and the largest.
ShardIDs == {0, MaxShard - 1, MaxShard}

\* Generators built by New(&Config{ShardID: s}) and used until two calls
\* before the sequence is exhausted in tick 0.
ShardGenStates ==
    {[New([ShardID |-> s, CustomEpochMs |-> I64(0)], AutoFailed)
        EXCEPT !.seq = SeqLimit - 2] : s \in ShardIDs}

InitShards ==
    /\ clock \in ClockValues
    /\ \E g \in ShardGenStates :
          /\ lastMs = g.lastMs
          /\ seq = g.seq
          /\ shard = g.shard
          /\ baseEpoch = g.baseEpoch
    /\ mu = 0
    /\ IdleCallers
    /\ onceDone = FALSE
    /\ defaultGenErr = NilErr
    /\ encIn = <<>>
    /\ encOut = <<>>
    /\ NoSpinCall
    /\ NoNewCall
    /\ NoAutoCall
    /\ autoCalls = 0
    /\ ctorCalls = 0

SpecShards == InitShards /\ [][Next]_vars

----------------------------------------------------------------------------
(* A freshly constructed Generator, one caller, the clock frozen *)

\* New(&Config{ShardID: s, CustomEpochMs: e}) for the shard ids of ShardIDs, e
\* unset or 2022-01-01
FreshCfgs ==
    {[ShardID |-> s, CustomEpochMs |-> e] : s \in ShardIDs, e \in {I64(0), <<1565005, 37888>>}}

\* Ticks at which the clock stands: the epoch itself, the two milliseconds
\* after it, and 2^20 ms after it.
FrozenTicks == {I64(0), I64(1), I64(2), <<1, 0>>}

InitFresh ==
    /\ \E cfg \in FreshCfgs, t \in FrozenTicks :
          LET g == New(cfg, AutoFailed)
          IN /\ lastMs = g.lastMs
             /\ seq = g.seq
             /\ shard = g.shard
             /\ baseEpoch = g.baseEpoch
             /\ clock = I64Add(g.baseEpoch, t)
    /\ mu = 0
    /\ IdleCallers
    /\ onceDone = FALSE
    /\ defaultGenErr = NilErr
    /\ encIn = <<>>
    /\ encOut = <<>>
    /\ NoSpinCall
    /\ NoNewCall
    /\ NoAutoCall
    /\ autoCalls = 0
    /\ ctorCalls = 0

\* The caller's calls follow one another; the clock does not move, and with
\* MaxCalls calls on a fresh generator no call reaches the spin-wait.
NextFresh ==
    \/ Call(Caller)
    \/ Lock(Caller)
    \/ Body(Caller)

SpecFresh == InitFresh /\ [][NextFresh]_vars

----------------------------------------------------------------------------
(* New as a function of its argument and of what autoShardFunc returns *)

\* Config.ShardID: the sentinel, other negative values, the ends of 0..1023,
\* a value inside, and values above.
NewShardIDs == {-1024, -2, AutoShard, 0, 123, MaxShard, MaxShard + 1, 2000}

\* Config.CustomEpochMs: unset, the smallest values around zero, 2022-01-01
\* (1640995200000 = 1565005 * 2^20 + 37888).
NewEpochs == {I64(0), I64(1), I64(-1), <<1565005, 37888>>}

NewCfgs ==
    {Nil} \cup {[ShardID |-> i, CustomEpochMs |-> e] : i \in NewShardIDs, e \in NewEpochs}

\* autoShardFunc fails, or returns a shard in 0..1023.
NewAutoResults ==
    {AutoFailed, [err |-> TRUE, shard |-> 0, error |-> "auto shard failed"]}
    \cup {[err |-> FALSE, shard |-> k] : k \in {0, 1, MaxShard}}

InitNew ==
    /\ cfgIn \in NewCfgs
    /\ autoIn \in NewAutoResults
    /\ newOut = NotCalled
    /\ autoCalls = 0
    /\ ctorCalls = 0
    /\ NoAutoCall
    /\ clock = defaultEpochMs
    /\ lastMs = I64(0)
    /\ seq = 0
    /\ shard = 0
    /\ baseEpoch = defaultEpochMs
    /\ mu = 0
    /\ IdleCallers
    /\ onceDone = FALSE
    /\ defaultGenErr = NilErr
    /\ encIn = <<>>
    /\ encOut = <<>>
    /\ NoSpinCall

\* New(cfgIn) is called and returns.
NewCall ==
    /\ newOut = NotCalled
    /\ newOut' = New(cfgIn, autoIn)
    /\ autoCalls' = (IF NewCallsAuto(cfgIn) THEN autoCalls + 1 ELSE autoCalls)
    /\ UNCHANGED <<clock, genVars, pc, locVars, issued, failed, onceVars, encVars, spinVars,
                   cfgIn, autoIn, ctorCalls, autoVars>>

SpecNew == InitNew /\ [][NewCall]_vars

----------------------------------------------------------------------------
(* New, then Next on the Generator it returned, one caller, any clock *)

\* nil, or a config with the sentinel or shard 1 and each epoch of NewEpochs
EpochCfgs ==
    {Nil} \cup {[ShardID |-> i, CustomEpochMs |-> e] : i \in {AutoShard, 1}, e \in NewEpochs}

\* Either New has not been called yet, or it has returned a Generator that
\* was then used until one call before the sequence is exhausted in tick 0
\* (SeqLimit-1 calls made while the clock read the epoch or earlier).
InitEpoch ==
    /\ cfgIn \in EpochCfgs
    /\ autoIn \in AutoResults
    /\ \/ /\ newOut = NotCalled
          /\ autoCalls = 0
          /\ lastMs = I64(0)
          /\ seq = 0
          /\ shard = 0
          /\ baseEpoch = I64(0)
       \/ /\ newOut = New(cfgIn, autoIn)
          /\ ~newOut.err
          /\ autoCalls = (IF NewCallsAuto(cfgIn) THEN 1 ELSE 0)
          /\ lastMs = newOut.lastMs
          /\ seq = SeqLimit - 1
          /\ shard = newOut.shard
          /\ baseEpoch = newOut.baseEpoch
    /\ ctorCalls = 0
    /\ NoAutoCall
    /\ clock \in ClockValues
    /\ mu = 0
    /\ IdleCallers
    /\ onceDone = FALSE
    /\ defaultGenErr = NilErr
    /\ encIn = <<>>
    /\ encOut = <<>>
    /\ NoSpinCall

\* g, err := New(cfgIn): on success g is the Generator of the later calls.
NewBuild ==
    /\ newOut = NotCalled
    /\ LET r == New(cfgIn, autoIn)
       IN /\ newOut' = r
          /\ IF r.err
             THEN UNCHANGED <<lastMs, seq, shard, baseEpoch>>
             ELSE /\ lastMs' = r.lastMs
                  /\ seq' = r.seq
                  /\ shard' = r.shard
                  /\ baseEpoch' = r.baseEpoch
    /\ autoCalls' = (IF NewCallsAuto(cfgIn) THEN autoCalls + 1 ELSE autoCalls)
    /\ UNCHANGED <<clock, mu, pc, locVars, issued, failed, onceVars, encVars, spinVars,
                   cfgIn, autoIn, ctorCalls, autoVars>>

\* New has returned a Generator.
Built == newOut # NotCalled /\ ~newOut.err

\* g.Next() is called on the Generator New returned.
CallBuilt(p) == Built /\ Call(p)

NextEpoch ==
    \/ NewBuild
    \/ \E t \in ClockValues : ClockSet(t)
    \/ CallBuilt(Caller)
    \/ NextSteps(Caller)

SpecEpoch == InitEpoch /\ [][NextEpoch]_vars

----------------------------------------------------------------------------
(* autoShardWithDeps as a function of what its dependencies return *)

\* net.Interface values: a loopback interface with an address, an interface
\* without a hardware address, and two interfaces with one.
Ifaces ==
    {[loopback |-> TRUE, mac |-> <<222, 173, 190, 239>>],
     [loopback |-> FALSE, mac |-> <<>>],
     [loopback |-> FALSE, mac |-> <<1, 2, 3, 4, 5, 6>>],
     [loopback |-> FALSE, mac |-> <<1, 2, 3, 4, 5, 7>>]}

\* what d.ifacesFunc() returns: up to two interfaces
IfaceLists == {<<>>} \cup {<<a>> : a \in Ifaces} \cup {<<a, b>> : a \in Ifaces, b \in Ifaces}

\* what d.hostFunc() returns: an error, "test-host" or the empty name
HostResults ==
    {[err |-> TRUE, name |-> <<>>],
     [err |-> FALSE, name |-> <<116, 101, 115, 116, 45, 104, 111, 115, 116>>],
     [err |-> FALSE, name |-> <<>>]}

\* what d.randFunc(b[:]) returns: an error, or two bytes in b
RandResults ==
    {[err |-> TRUE, b |-> <<0, 0>>],
     [err |-> FALSE, b |-> <<255, 255>>],
     [err |-> FALSE, b |-> <<4, 1>>]}

DepsValues ==
    [ifaces : IfaceLists, ifacesErr : BOOLEAN, host : HostResults, rand : RandResults]

InitAuto ==
    /\ depsIn \in DepsValues
    /\ autoOut = NotCalled
    /\ NoNewCall
    /\ autoCalls = 0
    /\ ctorCalls = 0
    /\ clock = defaultEpochMs
    /\ lastMs = I64(0)
    /\ seq = 0
    /\ shard = 0
    /\ baseEpoch = defaultEpochMs
    /\ mu = 0
    /\ IdleCallers
    /\ onceDone = FALSE
    /\ defaultGenErr = NilErr
    /\ encIn = <<>>
    /\ encOut = <<>>
    /\ NoSpinCall

\* autoShardWithDeps(depsIn) is called and returns.
AutoCall ==
    /\ autoOut = NotCalled
    /\ autoOut' = autoShardWithDeps(depsIn)
    /\ UNCHANGED <<clock, genVars, pc, locVars, issued, failed, onceVars, encVars, spinVars,
                   newVars, countVars, depsIn>>

SpecAuto == InitAuto /\ [][AutoCall]_vars

----------------------------------------------------------------------------
(* Claims *)

\* (tick, sequence) of a is lexicographically less than that of b
PairLess(a, b) == I64Less(a.tick, b.tick) \/ (a.tick = b.tick /\ a.seq < b.seq)

\* C1: under every interleaving of concurrent Next calls on one Generator, no
\* two calls return the same identifier, i.e. the same (tick, sequence) pair.
C1_NoDuplicateIds ==
    \A i, j \in DOMAIN issued :
        i # j => /\ issued[i].id # issued[j].id
                 /\ <<issued[i].tick, issued[i].seq>> # <<issued[j].tick, issued[j].seq>>

\* C2: with one caller whose Next calls do not overlap, and any clock readings
\* (backward jumps at any read included), the (tick, sequence) pairs of the
\* returned identifiers strictly increase in call order.
C2_SequentialPairsIncrease ==
    \A i, j \in DOMAIN issued : i < j => PairLess(issued[i], issued[j])

\* C3: with concurrent callers and a clock that never goes backward, a call
\* that returned before another began returned a strictly smaller packed value.
C3_IssuanceOrder ==
    \A j \in DOMAIN issued :
        \A i \in 1..issued[j].floor : U64Less(issued[i].val, issued[j].val)

\* C5: in every step of every execution, lastMs never decreases.
C5_LastMsNeverDecreases == [][I64Leq(lastMs, lastMs')]_vars

\* C6: a call that found the sequence exhausted in tick T returns an
\* identifier with sequence 0 and a tick field strictly greater than T.
C6_RolloverAdvancesTick ==
    \A i \in DOMAIN issued :
        issued[i].spun # NoSpin =>
            issued[i].seq = 0 /\ I64Less(issued[i].spun, issued[i].tick)

\* C4: any two successful Gen calls in one process that resolve to the same
\* shard and the same epoch return different IDs, with or without a config.
C4_GenIdsDistinct ==
    \A i, j \in DOMAIN issued :
        (i # j /\ issued[i].shard = issued[j].shard /\ issued[i].epoch = issued[j].epoch)
            => issued[i].id # issued[j].id

\* C7: with a fair lock, and a clock that eventually reads a tick greater
\* than lastMs (taken in its strongest form: from some point on every reading
\* is greater than lastMs), every Next call that has begun eventually returns;
\* and a call goes into the spin-wait only when it found the sequence
\* exhausted.
C7_EveryCallReturns ==
    /\ [][\A p \in Procs :
            (pc[p] # "spin" /\ pc'[p] = "spin") => SeqExhausted(seq')]_vars
    /\ (<>[]I64Less(lastMs, RereadTick(clock, baseEpoch)))
          => \A p \in Procs : (pc[p] # "idle") ~> (pc[p] = "idle")

\* s sorts before t under byte-wise comparison of equally long strings
RECURSIVE BytesLessFrom(_, _, _)
BytesLessFrom(s, t, k) ==
    IF k > Len(s) THEN FALSE
    ELSE IF s[k] # t[k] THEN s[k] < t[k]
    ELSE BytesLessFrom(s, t, k + 1)
BytesLess(s, t) == BytesLessFrom(s, t, 1)

\* the index (0..63) of a byte in the alphabet
AlphabetIndex(b) == (CHOOSE k \in DOMAIN alphabet : alphabet[k] = b) - 1

\* s sorts before t when characters are compared by their alphabet index
RECURSIVE IndexLessFrom(_, _, _)
IndexLessFrom(s, t, k) ==
    IF k > Len(s) THEN FALSE
    ELSE IF s[k] # t[k] THEN AlphabetIndex(s[k]) < AlphabetIndex(t[k])
    ELSE IndexLessFrom(s, t, k + 1)
IndexLess(s, t) == IndexLessFrom(s, t, 1)

\* C8: whenever packed value a < packed value b, the encoded string of a sorts
\* before the encoded string of b in byte (character code) order.
C8_ByteOrderIsValueOrder ==
    (encOut # <<>> /\ U64Less(encIn[1], encIn[2])) => BytesLess(encOut[1], encOut[2])

\* C9: the encoding is injective and order-preserving under alphabet-index
\* order: a < b iff enc(a) < enc(b), and enc(a) = enc(b) iff a = b.
C9_IndexOrderIsValueOrder ==
    encOut # <<>> =>
        /\ U64Less(encIn[1], encIn[2]) <=> IndexLess(encOut[1], encOut[2])
        /\ (encOut[1] = encOut[2]) <=> (encIn[1] = encIn[2])

\* C9 witness: two encoded values a < b whose strings byte order puts the
\* other way round.
C9_Witness ==
    /\ encOut # <<>>
    /\ U64Less(encIn[1], encIn[2])
    /\ BytesLess(encOut[2], encOut[1])

\* C10: every string returned by Next has exactly 11 characters, each one of
\* the 64 alphabet symbols, and the first has alphabet index <= 15.
C10_ElevenAlphabetChars ==
    \A i \in DOMAIN issued :
        /\ Len(issued[i].id) = 11
        /\ \A k \in 1..Len(issued[i].id) :
              \E a \in DOMAIN alphabet : alphabet[a] = issued[i].id[k]
        /\ AlphabetIndex(issued[i].id[1]) <= 15

\* C10 witness: a returned string whose first character has index 15 (the top
\* four bits of the packed value are set).
C10_Witness ==
    \E i \in DOMAIN issued :
        Len(issued[i].id) = 11 /\ AlphabetIndex(issued[i].id[1]) = 15

\* (val >> 15) & 0x3FF of a packed value
ShardField(v) ==
    v[15] + 2 * v[16] + 4 * v[17] + 8 * v[18] + 16 * v[19] + 32 * v[20]
    + 64 * v[21] + 128 * v[22] + 256 * v[23] + 512 * v[24]

\* C11: for every identifier a Generator issues, in any reachable state, bits
\* 15..24 of the packed value equal the generator's shard id: the sequence
\* field never spills into the shard field.
C11_ShardFieldIsShard ==
    \A i \in DOMAIN issued :
        /\ ShardField(issued[i].val) = issued[i].shard
        /\ issued[i].shard = shard

\* C11 witness: an identifier with the largest sequence number, issued by a
\* generator whose shard id has bit 0 clear, while another caller has pushed
\* the stored sequence counter to 1<<15.
C11_Witness ==
    \E i \in DOMAIN issued :
        /\ issued[i].seq = SeqLimit - 1
        /\ issued[i].shard = MaxShard - 1
        /\ seq >= SeqLimit

\* C12: New returns an error and no generator for every ShardID that is
\* neither the sentinel -1 nor within 0..1023, and for every ShardID within
\* 0..1023 it succeeds with shard equal to ShardID.
C12_ShardRangeChecked ==
    (newOut # NotCalled /\ cfgIn # Nil) =>
        /\ (cfgIn.ShardID # AutoShard /\ cfgIn.ShardID \notin 0..MaxShard) => newOut.err
        /\ cfgIn.ShardID \in 0..MaxShard =>
              (~newOut.err /\ newOut.shard = cfgIn.ShardID)

\* auto-derivation is requested: no config, or the sentinel ShardID -1
AutoRequested(cfg) == cfg = Nil \/ cfg.ShardID = AutoShard

\* C13: New calls the shard resolver only when auto-derivation is requested;
\* when the resolver fails New returns exactly the resolver's error and no
\* generator, and when it succeeds the generator's shard is the resolved one.
C13_ResolverOnlyOnRequest ==
    newOut # NotCalled =>
        /\ autoCalls > 0 => AutoRequested(cfgIn)
        /\ (AutoRequested(cfgIn) /\ autoIn.err) =>
              (newOut.err /\ newOut = [err |-> TRUE, error |-> autoIn.error])
        /\ (AutoRequested(cfgIn) /\ ~autoIn.err) =>
              (~newOut.err /\ newOut.shard = autoIn.shard)

\* C14: under any interleaving of Gen() calls without a config, newFunc(nil)
\* is called at most once; once it has run it is never run again and its
\* outcome stays; if it failed, every Gen() call returns that same error and
\* none uses a generator; if it succeeded, no Gen() call returns an error and
\* every identifier comes from that one generator.
C14_DefaultBuiltOnce ==
    /\ [](ctorCalls <= 1)
    /\ [][onceDone => /\ onceDone'
                      /\ ctorCalls' = ctorCalls
                      /\ defaultGenErr' = defaultGenErr
                      /\ shard' = shard
                      /\ baseEpoch' = baseEpoch]_vars
    /\ [](\A i \in DOMAIN failed :
            failed[i].gen = "default" =>
                (defaultGenErr # NilErr /\ failed[i].error = defaultGenErr))
    /\ [](defaultGenErr # NilErr =>
            /\ \A p \in Procs : pc[p] = "idle"
            /\ \A i \in DOMAIN issued : issued[i].gen # "g")
    /\ [](\A i \in DOMAIN issued :
            issued[i].gen = "g" =>
                (onceDone /\ issued[i].shard = shard /\ issued[i].epoch = baseEpoch))

\* C14 witness: the one construction failed and a later Gen() call returned
\* the cached error again.
C14_Witness ==
    /\ ctorCalls = 1
    /\ defaultGenErr # NilErr
    /\ Cardinality({i \in DOMAIN failed : failed[i].gen = "default"}) >= 2

\* the positions of the interfaces that are not loopback and have a
\* non-empty hardware address
Qualifying(ifs) == {k \in DOMAIN ifs : ~ifs[k].loopback /\ ifs[k].mac # <<>>}

C16_FreshSequenceFromZero ==
    \A k \in DOMAIN issued :
        /\ issued[k].seq = k - 1
        /\ issued[k].val = Pack(I64Sub(clock, baseEpoch), shard, k - 1)

\* the epoch offset the configuration asks for: 2020-01-01T00:00:00Z
\* (1577836800000 ms = 1504742 * 2^20 + 452608) when the config is nil or
\* CustomEpochMs is 0, else CustomEpochMs
EpochAskedFor(cfg) ==
    IF cfg = Nil THEN <<1504742, 452608>>
    ELSE IF cfg.CustomEpochMs = I64(0) THEN <<1504742, 452608>>
    ELSE cfg.CustomEpochMs

\* the identifier a step has just returned
JustIssued == issued'[Len(issued')]

C18_SpinnerYieldsAndStaysAhead ==
    /\ \A p \in Procs :
          /\ pc[p] \in {"spin", "relock"} => mu # p
          /\ pc[p] \in {"cs", "cs2"} => mu = p
    /\ \A j \in DOMAIN issued :
          issued[j].spun # NoSpin =>
              \A i \in 1..(j - 1) : U64Less(issued[i].val, issued[j].val)

\* C19: whenever a Next call enters the spin-wait, a clock reading one
\* millisecond past the reading at entry lets it leave: the wait is bounded
\* by one clock tick, also when lastMs is ahead of the clock.
C19_SpinWaitsOneTick ==
    [][\A p \in Procs :
          (pc[p] = "cs" /\ pc'[p] = "spin") =>
              SpinReturns(baseEpoch, nowMs'[p], I64Add(clock, I64(1)))]_vars

\* C20: in every reachable state of a Generator, the states other callers
\* see while the lock is released during a spin-wait included, the stored
\* sequence counter is within 0..32767.
C20_SeqWithinFifteenBits == seq \in 0..(SeqLimit - 1)

\* the number held by the n bits of v from bit lo upward
RECURSIVE NatOfBits(_, _, _)
NatOfBits(v, lo, n) ==
    IF n = 0 THEN 0 ELSE v[lo] + 2 * NatOfBits(v, lo + 1, n - 1)

\* val >> 25 as an int64: the 39 bits from bit 25 upward
TickField(v) == <<NatOfBits(v, 45, 19), NatOfBits(v, 25, 20)>>

\* C21: for every identifier issued, the top 39 bits of the packed value
\* equal the tick it was issued for (val >> 25 = lastMs): the shift truncates
\* nothing, so that the packed values of one generator order exactly as the
\* (tick, sequence) pairs.
C21_TickFieldIsTick ==
    /\ \A i \in DOMAIN issued : TickField(issued[i].val) = issued[i].tick
    /\ \A i, j \in DOMAIN issued :
          PairLess(issued[i], issued[j]) <=> U64Less(issued[i].val, issued[j].val)

\* C22: a Next call changes only lastMs and seq of its own Generator. Once
\* defaultGen is constructed its shard and epoch offset never change; the
\* steps of a Next call on it leave the clock and the package-level once state
\* alone; and a Next call on another Generator instance (the one Gen(cfg)
\* builds, with the same shard or not) leaves every field of defaultGen as
\* it was.
C22_NextFrame ==
    [][/\ onceDone => (shard' = shard /\ baseEpoch' = baseEpoch)
       /\ (\E p \in Procs : pc[p] # "idle" /\ pc'[p] # pc[p])
             => /\ clock' = clock
                /\ onceDone' = onceDone
                /\ defaultGenErr' = defaultGenErr
                /\ shard' = shard
                /\ baseEpoch' = baseEpoch
       /\ (Len(issued') > Len(issued) /\ JustIssued.gen = "cfg")
             => /\ lastMs' = lastMs
                /\ seq' = seq
                /\ shard' = shard
                /\ baseEpoch' = baseEpoch
                /\ mu' = mu]_vars

\* A one-off generator with the shard of defaultGen issued an identifier
\* while a Next call on defaultGen was in its spin-wait, and that call
\* returned afterwards.
C22_Witness ==
    /\ onceDone
    /\ \E i, j \in DOMAIN issued :
          /\ i < j
          /\ issued[i].gen = "cfg"
          /\ issued[i].shard = shard
          /\ issued[j].gen = "g"
          /\ issued[j].spun # NoSpin
          /\ issued[j].floor < i

\* C23: lastMs is never negative and no identifier is packed from a negative
\* tick, whatever the clock reads before, during or after a call.
C23_TicksNonNegative ==
    /\ I64Leq(I64(0), lastMs)
    /\ \A i \in DOMAIN issued : I64Leq(I64(0), issued[i].tick)

\* the epoch-relative tick of the k-th reading handed to spinUntilNextMs
SpinTick(k) == I64Sub(spinIn.readings[k], spinIn.baseEpoch)

\* C24: spinUntilNextMs returns on the first reading of the clock whose
\* epoch-relative tick is strictly greater than lastMs: it has not returned
\* exactly when no reading so far exceeds lastMs, and when it returns on the
\* k-th reading, that reading exceeds lastMs and none before it does.
C24_SpinReturnsAtFirstLaterTick ==
    spinOut # NotCalled =>
        /\ spinOut.reads = 0
              <=> \A k \in DOMAIN spinIn.readings : I64Leq(SpinTick(k), spinIn.lastMs)
        /\ spinOut.reads # 0
              => /\ I64Less(spinIn.lastMs, SpinTick(spinOut.reads))
                 /\ \A k \in 1..(spinOut.reads - 1) : I64Leq(SpinTick(k), spinIn.lastMs)

\* spinUntilNextMs read a tick below lastMs, then lastMs itself, and returned
\* on the third reading, the tick after lastMs.
C24_Witness ==
    /\ spinOut # NotCalled
    /\ spinOut.reads = 3
    /\ I64Less(SpinTick(1), spinIn.lastMs)
    /\ SpinTick(2) = spinIn.lastMs
    /\ SpinTick(3) = I64Add(spinIn.lastMs, I64(1))

====
